---- MODULE Spec2Model ----
(***************************************************************************)
(* Model of tubedownloader.py: the interactive YouTube-to-MP3 session.     *)
(* Console lines are sequences of one-character strings, the filesystem is *)
(* a map from resolved paths to entries, and every blocking point of the   *)
(* program (console read, probe, call into yt_dlp) is one position of pc.  *)
(***************************************************************************)
EXTENDS Integers, Sequences, FiniteSets, TLC

\* Largest value of downloaded_count the model lets the loop reach.
MaxDownloads == 2

\* The path prompts are counted up to this number.
PromptCap == 2

-----------------------------------------------------------------------------
(* str.strip(), str.lower(), substring test                                *)

\* stripping blanks only, as strip(' ') would
Whitespace_BlankOnly == {" "}

\* the characters str.strip() removes
Whitespace == {" ", "\t"}

\* str.lower() on the letters that occur in the inputs
LowerChar(c) ==
  CASE c = "A" -> "a" [] c = "B" -> "b" [] c = "C" -> "c" [] c = "E" -> "e"
    [] c = "M" -> "m" [] c = "O" -> "o" [] c = "S" -> "s" [] c = "T" -> "t"
    [] c = "U" -> "u" [] c = "Y" -> "y" [] OTHER -> c

Lower(s) == [i \in 1..Len(s) |-> LowerChar(s[i])]

RECURSIVE LStrip(_)
LStrip(s) ==
  IF s = <<>> THEN s
  ELSE IF s[1] \in Whitespace THEN LStrip(Tail(s)) ELSE s

RECURSIVE RStrip(_)
RStrip(s) ==
  IF s = <<>> THEN s
  ELSE IF s[Len(s)] \in Whitespace THEN RStrip(SubSeq(s, 1, Len(s) - 1)) ELSE s

Strip(s) == RStrip(LStrip(s))

\* Python's `d in s` for strings
Contains(s, d) ==
  \E i \in 1..(Len(s) - Len(d) + 1) : SubSeq(s, i, i + Len(d) - 1) = d

YoutubeCom == <<"y", "o", "u", "t", "u", "b", "e", ".", "c", "o", "m">>
YoutuBe == <<"y", "o", "u", "t", "u", ".", "b", "e">>
Domains == {YoutubeCom, YoutuBe}

\* a check that does not lower-case the URL
IsYoutubeUrl_CaseSensitive(url) == \E d \in Domains : Contains(url, d)

\* a check that looks for the common prefix "youtu" only
IsYoutubeUrl_PrefixOnly(url) == Contains(Lower(url), <<"y", "o", "u", "t", "u">>)

\* any(domain in url.lower() for domain in ['youtube.com', 'youtu.be'])
IsYoutubeUrl(url) == \E d \in Domains : Contains(Lower(url), d)

\* a confirmation test that looks at the first letter only
IsYes_FirstLetter(create) == create # <<>> /\ create[1] = "y"

\* create in ['y', 'yes']
IsYes(create) == create \in {<<"y">>, <<"y", "e", "s">>}

-----------------------------------------------------------------------------
(* Path(path).resolve(): a resolved path is the sequence of its segments   *)

Cwd == << <<"m">> >>

\* the segments of a path string, split at "/"; cur is the segment being read
RECURSIVE Split(_, _)
Split(s, cur) ==
  IF s = <<>> THEN (IF cur = <<>> THEN <<>> ELSE <<cur>>)
  ELSE IF s[1] = "/"
       THEN (IF cur = <<>> THEN <<>> ELSE <<cur>>) \o Split(Tail(s), <<>>)
       ELSE Split(Tail(s), Append(cur, s[1]))

\* "." is dropped, ".." removes the segment before it (never above the root)
RECURSIVE Normalize(_, _)
Normalize(segs, acc) ==
  IF segs = <<>> THEN acc
  ELSE IF segs[1] = <<".">> THEN Normalize(Tail(segs), acc)
  ELSE IF segs[1] = <<".", ".">>
       THEN Normalize(Tail(segs),
                      IF acc = <<>> THEN acc ELSE SubSeq(acc, 1, Len(acc) - 1))
       ELSE Normalize(Tail(segs), Append(acc, segs[1]))

Resolve(path) ==
  IF path[1] = "/" THEN Normalize(Split(path, <<>>), <<>>)
  ELSE Normalize(Split(path, <<>>), Cwd)

-----------------------------------------------------------------------------
(* the filesystem the session sees                                         *)

Root == <<>>
PathM == << <<"m">> >>
PathMN == << <<"m">>, <<"n">> >>
PathF == << <<"f">> >>
AllPaths == {Root, PathM, PathMN, PathF}

Parent(p) == SubSeq(p, 1, Len(p) - 1)

Absent == [kind |-> "absent", writable |-> FALSE]
Entries ==
  {Absent} \cup [kind : {"dir", "file"}, writable : BOOLEAN]

\* every entry that is present lies in a directory; the root is a directory
WellFormedFs(f) ==
  /\ f[Root].kind = "dir"
  /\ \A p \in AllPaths \ {Root} :
       f[p].kind # "absent" => f[Parent(p)].kind = "dir"

\* the entry at p; a path the map does not mention is not there
Entry(f, p) == IF p \in DOMAIN f THEN f[p] ELSE Absent

\* the existence test with its sense inverted
Exists_Inverted(f, p) == Entry(f, p).kind = "absent"

\* Path.exists(), Path.is_dir()
Exists(f, p) == Entry(f, p).kind # "absent"
IsDir(f, p) == Entry(f, p).kind = "dir"

\* a test for existence where the write test should be, as os.F_OK would be
AccessW_ExistsOnly(f, p) == Entry(f, p).kind # "absent"

\* os.access(p, os.W_OK)
AccessW(f, p) == Entry(f, p).kind # "absent" /\ Entry(f, p).writable

WithDir(f, p, w) ==
  [q \in DOMAIN f \cup {p} |-> IF q = p THEN [kind |-> "dir", writable |-> w] ELSE f[q]]

\* os.mkdir(p): the result and whether it raised
OsMkdir(f, p, w, ioerr) ==
  IF Entry(f, p).kind # "absent" THEN [fs |-> f, err |-> "FileExistsError"]
  ELSE IF Entry(f, Parent(p)).kind = "absent" THEN [fs |-> f, err |-> "FileNotFoundError"]
  ELSE IF Entry(f, Parent(p)).kind = "file" THEN [fs |-> f, err |-> "NotADirectoryError"]
  ELSE IF ~Entry(f, Parent(p)).writable THEN [fs |-> f, err |-> "PermissionError"]
  ELSE IF ioerr THEN [fs |-> f, err |-> "OSError"]
  ELSE [fs |-> WithDir(f, p, w), err |-> "none"]

\* Path.mkdir(parents=True, exist_ok=True): missing ancestors are created
\* first; an existing directory is not an error
RECURSIVE Mkdir(_, _, _, _)
Mkdir(f, p, w, ioerr) ==
  LET first == OsMkdir(f, p, w, ioerr) IN
  IF first.err = "FileNotFoundError" /\ p # Root
  THEN LET up == Mkdir(f, Parent(p), w, FALSE) IN
       IF up.err # "none" THEN up ELSE OsMkdir(up.fs, p, w, ioerr)
  ELSE IF first.err # "none" /\ IsDir(f, p) THEN [fs |-> f, err |-> "none"]
  ELSE first

-----------------------------------------------------------------------------
(* console input the user may type                                         *)

PathLines ==
  { <<>>, <<" ">>, <<"\t", " ">>,
    <<"/", "m">>, <<" ", "/", "m", " ">>, <<"/", "m", "/", "n">>, <<"n">>,
    <<"/", "f">>, <<"/", "m", "/", ".", ".", "/", "f">>, <<"/">> }

CreateLines ==
  { <<"y">>, <<"y", "e", "s">>, <<"Y">>, <<" ", "Y", "E", "S", " ">>,
    <<"n">>, <<"n", "o">>, <<>>, <<"y", "e">> }

UrlLines ==
  { <<>>, <<" ">>, <<"\t", " ">>,
    <<"f", "t", "p", ":", "/", "/", "x">>,
    <<"y", "o", "u", "t", "u", "b", "e", ".", "c", "o">>,
    <<"y", "o", "u", "t", "u", "b", "e", ".", "c", "o", "m", "/", "w">>,
    <<"Y", "O", "U", "T", "U", "B", "E", ".", "C", "O", "M", "/", "w">>,
    <<" ", "y", "o", "u", "t", "u", ".", "b", "e", "/", "x", " ">>,
    <<"Y", "o", "u", "T", "u", ".", "B", "e", "/", "x">> }

-----------------------------------------------------------------------------
(* what the fetch service and the probe may answer                         *)

ErrMsgs == {"DownloadError", "PostProcessingError"}

Titles == {"absent", "Song"}

\* info['duration']: missing, None, an int or a float number of seconds
Durations ==
  { [type |-> "absent", val |-> 0], [type |-> "none", val |-> 0],
    [type |-> "int", val |-> 0], [type |-> "int", val |-> 75],
    [type |-> "int", val |-> 3725],
    [type |-> "float", val |-> 0], [type |-> "float", val |-> 75] }

ExtractResults ==
  [type : {"raise"}, msg : ErrMsgs, title : {"absent"}, duration : {[type |-> "absent", val |-> 0]}]
  \cup [type : {"none"}, msg : {"none"}, title : {"absent"}, duration : {[type |-> "absent", val |-> 0]}]
  \cup [type : {"info"}, msg : {"none"}, title : Titles, duration : Durations]

DownloadResults ==
  [type : {"ok"}, msg : {"none"}] \cup [type : {"raise"}, msg : ErrMsgs]

NoFetch == [call |-> "none", type |-> "none", msg |-> "none"]

\* subprocess.run(['ffmpeg', '-version'], capture_output=True, check=True)
ProbeResults == {"ok", "CalledProcessError", "FileNotFoundError", "PermissionError"}

\* except (subprocess.CalledProcessError, FileNotFoundError)
ProbeCaught == {"CalledProcessError", "FileNotFoundError"}

-----------------------------------------------------------------------------
(* printed lines                                                           *)

L(kind, text) == [kind |-> kind, text |-> text]

Kinds(o) == [i \in DOMAIN o |-> o[i].kind]

HasKind(o, k) == \E i \in DOMAIN o : o[i].kind = k

CountKind(o, k) == Cardinality({i \in DOMAIN o : o[i].kind = k})

\* str(download_path)
RECURSIVE PathStr(_)
PathStr(p) ==
  IF p = <<>> THEN <<"/">>
  ELSE IF Len(p) = 1 THEN <<"/">> \o p[1]
  ELSE PathStr(SubSeq(p, 1, Len(p) - 1)) \o <<"/">> \o p[Len(p)]

\* '%(title)s.%(ext)s'
OutTemplate ==
  <<"%", "(", "t", "i", "t", "l", "e", ")", "s", ".", "%", "(", "e", "x", "t", ")", "s">>

\* os.path.join(download_path, template)
PathJoin(a, b) ==
  IF a = <<>> \/ a[Len(a)] = "/" THEN a \o b ELSE a \o <<"/">> \o b

Digit(n) ==
  CASE n = 0 -> "0" [] n = 1 -> "1" [] n = 2 -> "2" [] n = 3 -> "3" [] n = 4 -> "4"
    [] n = 5 -> "5" [] n = 6 -> "6" [] n = 7 -> "7" [] n = 8 -> "8" [] n = 9 -> "9"

RECURSIVE Decimal(_)
Decimal(n) == IF n < 10 THEN <<Digit(n)>> ELSE Decimal(n \div 10) \o <<Digit(n % 10)>>

\* f"{n:02d}"
Fmt02d(n) == IF n < 10 THEN <<"0">> \o Decimal(n) ELSE Decimal(n)

\* mins, secs = divmod(duration, 60); f"{mins:02d}:{secs:02d}"
FmtDuration(d) == Fmt02d(d \div 60) \o <<":">> \o Fmt02d(d % 60)

-----------------------------------------------------------------------------
VARIABLES
  pc,                 \* the statement the program is blocked at
  fs,                 \* the filesystem
  yt_dlp_installed,   \* whether `import yt_dlp` succeeds
  line,               \* the text last returned by input(), before strip()
  path,               \* get_download_path's path, the stripped line
  download_path,      \* get_download_path's resolved candidate
  main_download_path, \* main's download_path, the string get_download_path returned
  url,                \* main's url
  arg_download_path,  \* the download_path argument of the last download_audio call
  outtmpl,            \* ydl_opts['outtmpl'] of the last download_audio call
  title,              \* download_audio's title
  last_fetch,         \* the last answer of yt_dlp in the current download_audio call
  downloaded_count,   \* main's downloaded_count
  out,                \* the lines printed since the last console read
  exit_status,        \* how the process ended
  path_returns,       \* number of returns of get_download_path so far
  dispatches,         \* number of calls of download_audio so far
  dispatch_returns,   \* number of returns of download_audio so far
  last_probe,         \* how the ffmpeg probe just made ended
  last_mkdir,         \* how the mkdir of the current path iteration ended
  path_prompts,       \* number of path prompts answered so far, up to PromptCap
  item_extracts,      \* extract_info calls of the current download_audio call
  item_downloads      \* download calls of the current download_audio call

vars ==
  << pc, fs, yt_dlp_installed, line, path, download_path, main_download_path, url,
     arg_download_path, outtmpl, title, last_fetch, downloaded_count, out, exit_status,
     path_returns, dispatches, dispatch_returns, last_probe, last_mkdir,
     path_prompts, item_extracts, item_downloads >>

NoPath == <<"?">>

Init ==
  /\ pc = "import"
  /\ fs \in {f \in [AllPaths -> Entries] : WellFormedFs(f)}
  /\ yt_dlp_installed \in BOOLEAN
  /\ line = <<>>
  /\ path = <<>>
  /\ download_path = NoPath
  /\ main_download_path = <<>>
  /\ url = <<>>
  /\ arg_download_path = <<>>
  /\ outtmpl = <<>>
  /\ title = "none"
  /\ last_fetch = NoFetch
  /\ downloaded_count = 0
  /\ out = <<>>
  /\ exit_status = "running"
  /\ path_returns = 0
  /\ dispatches = 0
  /\ dispatch_returns = 0
  /\ last_probe = "none"
  /\ last_mkdir = "none"
  /\ path_prompts = 0
  /\ item_extracts = 0
  /\ item_downloads = 0

-----------------------------------------------------------------------------
(* module import guard and the head of main()                              *)

\* an import guard that prints the instructions and goes on
ImportGuard_NoExit ==
  /\ pc = "import"
  /\ pc' = "path_prompt"
  /\ out' = (IF yt_dlp_installed THEN <<>>
             ELSE <<L("not_installed", "Error: yt-dlp is not installed."),
                    L("install_hint", "Please install it using: pip install yt-dlp")>>)
            \o <<L("banner", "=== YouTube to MP3 Downloader ===")>>
  /\ UNCHANGED << fs, yt_dlp_installed, line, path, download_path, main_download_path,
                  url, arg_download_path, outtmpl, title, last_fetch, downloaded_count,
                  exit_status, path_returns, dispatches, dispatch_returns, last_probe,
                  last_mkdir, path_prompts, item_extracts, item_downloads >>

ImportGuard ==
  /\ pc = "import"
  /\ IF yt_dlp_installed
     THEN /\ pc' = "path_prompt"
          /\ out' = <<L("banner", "=== YouTube to MP3 Downloader ==="),
                      L("banner", "This script downloads audio from YouTube videos and converts them to MP3."),
                      L("banner", "Press Enter without a URL to exit.")>>
          /\ exit_status' = exit_status
     ELSE /\ pc' = "exited"
          /\ out' = <<L("not_installed", "Error: yt-dlp is not installed."),
                      L("install_hint", "Please install it using: pip install yt-dlp")>>
          /\ exit_status' = "1"
  /\ UNCHANGED << fs, yt_dlp_installed, line, path, download_path, main_download_path,
                  url, arg_download_path, outtmpl, title, last_fetch, downloaded_count,
                  path_returns, dispatches, dispatch_returns, last_probe, last_mkdir,
                  path_prompts, item_extracts, item_downloads >>

-----------------------------------------------------------------------------
(* get_download_path()                                                     *)

\* the checks without the is_dir test
CheckDirectory_NoDirTest(f, p, pre) ==
  IF ~AccessW(f, p)
  THEN [ret |-> FALSE, out |-> Append(pre, L("no_write_permission", "You don't have write permission to this directory."))]
  ELSE [ret |-> TRUE, out |-> pre]

\* the checks without their diagnostics
CheckDirectory_Silent(f, p, pre) ==
  [ret |-> IsDir(f, p) /\ AccessW(f, p), out |-> pre]

\* the is_dir and os.access checks; pre is what the iteration printed so far
CheckDirectory(f, p, pre) ==
  IF ~IsDir(f, p)
  THEN [ret |-> FALSE, out |-> Append(pre, L("not_a_directory", "The path must be a directory, not a file."))]
  ELSE IF ~AccessW(f, p)
  THEN [ret |-> FALSE, out |-> Append(pre, L("no_write_permission", "You don't have write permission to this directory."))]
  ELSE [ret |-> TRUE, out |-> pre]

\* the end of an iteration that reached the checks: `continue`, or return to
\* main, which prints the path and goes on to the ffmpeg probe
FinishPathIteration(f, p, pre) ==
  LET chk == CheckDirectory(f, p, pre) IN
  IF chk.ret
  THEN /\ pc' = "probe"
       /\ main_download_path' = PathStr(p)
       /\ path_returns' = path_returns + 1
       /\ out' = Append(chk.out, L("path_set", PathStr(p)))
  ELSE /\ pc' = "path_prompt"
       /\ out' = chk.out
       /\ UNCHANGED << main_download_path, path_returns >>

PathPrompt(ln) ==
  /\ pc = "path_prompt"
  /\ line' = ln
  /\ path' = Strip(ln)
  /\ path_prompts' = (IF path_prompts < PromptCap THEN path_prompts + 1 ELSE path_prompts)
  /\ last_mkdir' = "none"
  /\ IF Strip(ln) = <<>>
     THEN /\ pc' = "path_prompt"
          /\ out' = <<L("invalid_path", "Please enter a valid path.")>>
          /\ UNCHANGED << download_path, main_download_path, path_returns >>
     ELSE /\ download_path' = Resolve(Strip(ln))
          /\ IF ~Exists(fs, Resolve(Strip(ln)))
             THEN /\ pc' = "create_prompt"
                  /\ out' = <<>>
                  /\ UNCHANGED << main_download_path, path_returns >>
             ELSE FinishPathIteration(fs, Resolve(Strip(ln)), <<>>)
  /\ UNCHANGED << fs, yt_dlp_installed, url, arg_download_path, outtmpl, title,
                  last_fetch, downloaded_count, exit_status, dispatches,
                  dispatch_returns, last_probe, item_extracts, item_downloads >>

\* a handler that swallows the mkdir error and goes on to the checks
CreatePrompt_IgnoreError(ln, w, ioerr) ==
  /\ pc = "create_prompt"
  /\ line' = ln
  /\ IF IsYes(Lower(Strip(ln)))
     THEN LET made == Mkdir(fs, download_path, w, ioerr) IN
          /\ fs' = made.fs
          /\ last_mkdir' = made.err
          /\ FinishPathIteration(made.fs, download_path,
                                 IF made.err = "none"
                                 THEN <<L("created", PathStr(download_path))>>
                                 ELSE <<>>)
     ELSE /\ pc' = "path_prompt"
          /\ out' = <<>>
          /\ UNCHANGED << fs, main_download_path, path_returns, last_mkdir >>
  /\ UNCHANGED << yt_dlp_installed, path, download_path, url, arg_download_path,
                  outtmpl, title, last_fetch, downloaded_count, exit_status,
                  dispatches, dispatch_returns, last_probe, path_prompts,
                  item_extracts, item_downloads >>

CreatePrompt(ln, w, ioerr) ==
  /\ pc = "create_prompt"
  /\ line' = ln
  /\ LET create == Lower(Strip(ln)) IN
     IF IsYes(create)
     THEN LET made == Mkdir(fs, download_path, w, ioerr) IN
          /\ fs' = made.fs
          /\ last_mkdir' = made.err
          /\ IF made.err = "none"
             THEN FinishPathIteration(made.fs, download_path,
                                      <<L("created", PathStr(download_path))>>)
             ELSE /\ pc' = "path_prompt"
                  /\ out' = <<L("create_error", made.err)>>
                  /\ UNCHANGED << main_download_path, path_returns >>
     ELSE /\ pc' = "path_prompt"
          /\ out' = <<>>
          /\ UNCHANGED << fs, main_download_path, path_returns, last_mkdir >>
  /\ UNCHANGED << yt_dlp_installed, path, download_path, url, arg_download_path,
                  outtmpl, title, last_fetch, downloaded_count, exit_status,
                  dispatches, dispatch_returns, last_probe, path_prompts,
                  item_extracts, item_downloads >>

-----------------------------------------------------------------------------
(* the ffmpeg probe of main()                                              *)

Probe(r) ==
  /\ pc = "probe"
  /\ last_probe' = r
  /\ IF r = "ok"
     THEN /\ pc' = "AwaitingURL"
          /\ out' = <<>>
          /\ exit_status' = exit_status
     ELSE IF r \in ProbeCaught
     THEN /\ pc' = "AwaitingURL"
          /\ out' = <<L("ffmpeg_warning", "Warning: FFmpeg not found. You may need to install FFmpeg for audio conversion."),
                      L("ffmpeg_hint", "Download from: https://ffmpeg.org/download.html")>>
          /\ exit_status' = exit_status
     ELSE \* the exception leaves main(): traceback, exit status 1
          /\ pc' = "crashed"
          /\ out' = <<L("traceback", r)>>
          /\ exit_status' = "1"
  /\ downloaded_count' = 0
  /\ UNCHANGED << fs, yt_dlp_installed, line, path, download_path, main_download_path,
                  url, arg_download_path, outtmpl, title, last_fetch, path_returns,
                  dispatches, dispatch_returns, last_mkdir, path_prompts,
                  item_extracts, item_downloads >>

-----------------------------------------------------------------------------
(* the download loop of main() and download_audio()                        *)

\* print("-" * 50)
SeparatorWidth == 50

\* a separator ten dashes short
Separator_Short == [i \in 1..(SeparatorWidth - 10) |-> "-"]

Separator == [i \in 1..SeparatorWidth |-> "-"]

\* a counter advanced twice
CountAfterDispatch_Double(n) == n + 2

\* a counter that is not advanced
CountAfterDispatch_Forgotten(n) == n

\* downloaded_count += 1
CountAfterDispatch(n) == n + 1

ReturnToLoop(printed) ==
  /\ pc' = "AwaitingURL"
  /\ dispatch_returns' = dispatch_returns + 1
  /\ downloaded_count' = CountAfterDispatch(downloaded_count)
  /\ out' = Append(printed, L("separator", Separator))

\* an error line that leaves the URL out
ErrorLine_NoUrl(u, msg) == L("error", [url |-> <<>>, msg |-> msg])

\* except Exception as e: print(f"... Error downloading {url}: {str(e)}")
ErrorLine(u, msg) == L("error", [url |-> u, msg |-> msg])

\* a summary that counts the terminating input as well
SummaryLine_OffByOne(n) == L("summary", n + 1)

\* print(f"\nDownload session completed. Total files downloaded: {downloaded_count}")
SummaryLine(n) == L("summary", n)

UrlPrompt(ln) ==
  /\ pc = "AwaitingURL"
  /\ line' = ln
  /\ url' = Strip(ln)
  /\ last_fetch' = NoFetch
  /\ last_probe' = "none"
  /\ item_extracts' = 0
  /\ item_downloads' = 0
  /\ IF Strip(ln) = <<>>
     THEN /\ pc' = "Ended"
          /\ out' = <<SummaryLine(downloaded_count),
                      L("thanks", "Thank you for using YouTube to MP3 Downloader!")>>
          /\ exit_status' = "0"
          /\ UNCHANGED << arg_download_path, outtmpl, dispatches >>
     ELSE IF ~IsYoutubeUrl(Strip(ln))
     THEN /\ pc' = "AwaitingURL"
          /\ out' = <<L("invalid_url", "Please enter a valid YouTube URL.")>>
          /\ UNCHANGED << exit_status, arg_download_path, outtmpl, dispatches >>
     ELSE /\ downloaded_count < MaxDownloads
          /\ pc' = "extract_info"
          /\ out' = <<L("processing", Strip(ln))>>
          /\ arg_download_path' = main_download_path
          /\ outtmpl' = PathJoin(main_download_path, OutTemplate)
          /\ dispatches' = dispatches + 1
          /\ exit_status' = exit_status
  /\ UNCHANGED << fs, yt_dlp_installed, path, download_path, main_download_path,
                  title, downloaded_count, path_returns, dispatch_returns,
                  last_mkdir, path_prompts >>

\* a try block that ends after extract_info: a failure is reported and the
\* download is made all the same
ExtractInfo_DownloadAnyway(r) ==
  /\ pc = "extract_info"
  /\ last_fetch' = [call |-> "extract_info", type |-> r.type, msg |-> r.msg]
  /\ item_extracts' = item_extracts + 1
  /\ pc' = "download"
  /\ title' = (IF r.type = "info" /\ r.title # "absent" THEN r.title ELSE "Unknown")
  /\ out' = (IF r.type = "info"
             THEN Append(out, L("title", title'))
             ELSE Append(out, ErrorLine(url, r.msg)))
            \o <<L("downloading", "Downloading and converting to MP3...")>>
  /\ UNCHANGED << fs, yt_dlp_installed, line, path, download_path,
                  main_download_path, url, arg_download_path, outtmpl, exit_status,
                  path_returns, dispatches, last_probe, last_mkdir, path_prompts,
                  item_downloads, downloaded_count, dispatch_returns >>

\* ydl.extract_info(url, download=False) and the prints that follow it
ExtractInfo(r) ==
  /\ pc = "extract_info"
  /\ last_fetch' = [call |-> "extract_info", type |-> r.type, msg |-> r.msg]
  /\ item_extracts' = item_extracts + 1
  /\ IF r.type = "raise"
     THEN /\ ReturnToLoop(Append(out, ErrorLine(url, r.msg)))
          /\ title' = title
     ELSE IF r.type = "none"
     THEN \* info is None: info.get raises AttributeError
          /\ ReturnToLoop(Append(out, ErrorLine(url, "AttributeError")))
          /\ title' = title
     ELSE LET t == IF r.title = "absent" THEN "Unknown" ELSE r.title
              d == r.duration
              truthy == d.type \in {"int", "float"} /\ d.val # 0
              shown == Append(out, L("title", t))
          IN /\ title' = t
             /\ IF truthy /\ d.type = "float"
                THEN \* format code 'd' applied to a float: ValueError
                     ReturnToLoop(Append(shown, ErrorLine(url, "ValueError")))
                ELSE /\ pc' = "download"
                     /\ out' = (IF truthy
                                THEN Append(shown, L("duration", FmtDuration(d.val)))
                                ELSE shown)
                               \o <<L("downloading", "Downloading and converting to MP3...")>>
                     /\ UNCHANGED << downloaded_count, dispatch_returns >>
  /\ UNCHANGED << fs, yt_dlp_installed, line, path, download_path,
                  main_download_path, url, arg_download_path, outtmpl, exit_status,
                  path_returns, dispatches, last_probe, last_mkdir, path_prompts,
                  item_downloads >>

\* a success line printed before the outcome of the download is known
Download_SuccessFirst(r) ==
  /\ pc = "download"
  /\ last_fetch' = [call |-> "download", type |-> r.type, msg |-> r.msg]
  /\ item_downloads' = item_downloads + 1
  /\ IF r.type = "ok"
     THEN ReturnToLoop(Append(out, L("success", title)))
     ELSE ReturnToLoop(Append(Append(out, L("success", title)), ErrorLine(url, r.msg)))
  /\ UNCHANGED << fs, yt_dlp_installed, line, path, download_path,
                  main_download_path, url, arg_download_path, outtmpl, title,
                  exit_status, path_returns, dispatches, last_probe, last_mkdir,
                  path_prompts, item_extracts >>

\* a download that is tried again after a failure
Download_Retry(r) ==
  /\ pc = "download"
  /\ last_fetch' = [call |-> "download", type |-> r.type, msg |-> r.msg]
  /\ item_downloads' = item_downloads + 1
  /\ IF r.type = "ok"
     THEN ReturnToLoop(Append(out, L("success", title)))
     ELSE /\ pc' = "download"
          /\ out' = Append(out, ErrorLine(url, r.msg))
          /\ UNCHANGED << downloaded_count, dispatch_returns >>
  /\ UNCHANGED << fs, yt_dlp_installed, line, path, download_path,
                  main_download_path, url, arg_download_path, outtmpl, title,
                  exit_status, path_returns, dispatches, last_probe, last_mkdir,
                  path_prompts, item_extracts >>

\* ydl.download([url]) and the success line
Download(r) ==
  /\ pc = "download"
  /\ last_fetch' = [call |-> "download", type |-> r.type, msg |-> r.msg]
  /\ item_downloads' = item_downloads + 1
  /\ IF r.type = "ok"
     THEN ReturnToLoop(Append(out, L("success", title)))
     ELSE ReturnToLoop(Append(out, ErrorLine(url, r.msg)))
  /\ UNCHANGED << fs, yt_dlp_installed, line, path, download_path,
                  main_download_path, url, arg_download_path, outtmpl, title,
                  exit_status, path_returns, dispatches, last_probe, last_mkdir,
                  path_prompts, item_extracts >>

-----------------------------------------------------------------------------
Next ==
  \/ ImportGuard
  \/ \E ln \in PathLines : PathPrompt(ln)
  \/ \E ln \in CreateLines, w \in BOOLEAN, ioerr \in BOOLEAN : CreatePrompt(ln, w, ioerr)
  \/ \E r \in ProbeResults : Probe(r)
  \/ \E ln \in UrlLines : UrlPrompt(ln)
  \/ \E r \in ExtractResults : ExtractInfo(r)
  \/ \E r \in DownloadResults : Download(r)

Spec == Init /\ [][Next]_vars

TypeOK ==
  /\ pc \in {"import", "exited", "path_prompt", "create_prompt", "probe", "crashed",
             "AwaitingURL", "extract_info", "download", "Ended"}
  /\ \A p \in DOMAIN fs : fs[p] \in Entries
  /\ downloaded_count \in 0..MaxDownloads
  /\ exit_status \in {"running", "0", "1"}

-----------------------------------------------------------------------------
(* Properties                                                              *)

Processing == pc \in {"extract_info", "download"}

LacksDomains(s) ==
  /\ ~Contains(Lower(s), <<"y", "o", "u", "t", "u", "b", "e", ".", "c", "o", "m">>)
  /\ ~Contains(Lower(s), <<"y", "o", "u", "t", "u", ".", "b", "e">>)

OnlyWhitespace(s) == \A i \in DOMAIN s : s[i] \in {" ", "\t"}

\* C1 as stated: every non-empty line read at the URL prompt that contains
\* neither domain (case-insensitively) causes no call of download_audio,
\* leaves downloaded_count alone and leaves the session at the URL prompt.
C1_RejectedAsStated ==
  [][(pc = "AwaitingURL" /\ line' # <<>> /\ LacksDomains(line'))
       => /\ dispatches' = dispatches
          /\ downloaded_count' = downloaded_count
          /\ pc' = "AwaitingURL"]_vars

\* C1 amended: every line read at the URL prompt that is not empty once its
\* surrounding whitespace is removed and that contains neither domain
\* (case-insensitively) causes no call of download_audio, leaves
\* downloaded_count alone and leaves the session at the URL prompt, where
\* the rejection diagnostic has been printed.
C1_RejectedInputNoDispatch ==
  [][(pc = "AwaitingURL" /\ ~OnlyWhitespace(line') /\ LacksDomains(line'))
       => /\ dispatches' = dispatches
          /\ dispatch_returns' = dispatch_returns
          /\ downloaded_count' = downloaded_count
          /\ pc' = "AwaitingURL"
          /\ Kinds(out') = <<"invalid_url">>]_vars

C1_Witness ==
  /\ pc = "AwaitingURL"
  /\ ~OnlyWhitespace(line) /\ LacksDomains(line)
  /\ Kinds(out) = <<"invalid_url">>
  /\ downloaded_count = 1

\* C2: between the acceptance of a URL and the return to the URL prompt
\* downloaded_count grows by exactly one: not at acceptance, not between the
\* two calls into yt_dlp, and by one at the return, whether the dispatch
\* printed the success line or an error line; Processing always returns to
\* the URL prompt.
C2_CountOncePerAcceptedUrl ==
  [][/\ (pc = "AwaitingURL" /\ pc' \in {"extract_info", "download"})
          => downloaded_count' = downloaded_count
     /\ (pc = "extract_info" /\ pc' = "download")
          => downloaded_count' = downloaded_count
     /\ Processing => pc' \in {"extract_info", "download", "AwaitingURL"}
     /\ (Processing /\ pc' = "AwaitingURL")
          => downloaded_count' = downloaded_count + 1]_vars

C2_Witness ==
  /\ pc = "AwaitingURL"
  /\ dispatches = 2 /\ downloaded_count = 2
  /\ last_fetch.type = "raise"
  /\ HasKind(out, "error")

\* C3: whenever yt_dlp raises in extract_info or in download, download_audio
\* prints exactly one error line, which carries the URL and the error text,
\* prints no success line, returns to main, and the session is at the URL
\* prompt and still running.
C3_FetchFailureCaught ==
  [][(Processing /\ last_fetch'.type = "raise")
       => /\ pc' = "AwaitingURL"
          /\ exit_status' = "running"
          /\ dispatch_returns' = dispatch_returns + 1
          /\ CountKind(out', "error") = 1
          /\ ~HasKind(out', "success")
          /\ \E i \in DOMAIN out' :
               /\ out'[i].kind = "error"
               /\ out'[i].text.url = url
               /\ out'[i].text.msg = last_fetch'.msg]_vars

C3_Witness ==
  /\ pc = "AwaitingURL"
  /\ last_fetch.call = "download" /\ last_fetch.type = "raise"
  /\ CountKind(out, "error") = 1
  /\ url # <<>>

\* C4: once the import has succeeded the process never ends through an
\* uncaught error; if it has ended, it is in Ended and the last line read,
\* at the URL prompt, was empty.
C4_OnlyEmptyInputEnds ==
  (yt_dlp_installed /\ exit_status # "running")
    => /\ pc = "Ended"
       /\ exit_status = "0"
       /\ OnlyWhitespace(line)

\* C5: in Ended exactly one summary line has been printed and its total is
\* the number of download_audio calls of the session; rejected lines, which
\* cause no call, are not counted, and without any call the total is 0.
C5_TotalIsDispatchCount ==
  pc = "Ended"
    => /\ CountKind(out, "summary") = 1
       /\ \E i \in DOMAIN out : out[i].kind = "summary" /\ out[i].text = dispatches

C5_Witness ==
  /\ pc = "Ended"
  /\ dispatches = 2
  /\ HasKind(out, "summary")

\* C6: get_download_path returns exactly once per session and does so before
\* the first call of download_audio; the string it returned names a writable
\* directory, never changes afterwards, and is the directory argument of
\* every download_audio call.
C6_DirectoryValidatedOnce ==
  /\ [](path_returns <= 1)
  /\ []((pc \in {"probe", "AwaitingURL", "extract_info", "download", "Ended"})
          => path_returns = 1)
  /\ [](dispatches > 0
          => /\ path_returns = 1
             /\ arg_download_path = main_download_path
             /\ Resolve(arg_download_path) \in DOMAIN fs
             /\ fs[Resolve(arg_download_path)] = [kind |-> "dir", writable |-> TRUE])
  /\ [][path_returns = 1
          => /\ path_returns' = 1
             /\ main_download_path' = main_download_path]_vars

C6_Witness ==
  /\ pc = "download"
  /\ dispatches = 2
  /\ path_returns = 1
  /\ arg_download_path = <<"/", "m", "/", "n">>

\* C7: whenever get_download_path returns, the string it returns is the
\* resolved form of the non-empty path entered last, and that path is, in
\* the filesystem as it then is, present, a directory and writable.
C7_ReturnsOnlyValidPath ==
  [][(pc \in {"path_prompt", "create_prompt"} /\ pc' = "probe")
       => /\ path' # <<>>
          /\ download_path' = Resolve(path')
          /\ main_download_path' = PathStr(download_path')
          /\ Resolve(main_download_path') = download_path'
          /\ download_path' \in DOMAIN fs'
          /\ fs'[download_path'] = [kind |-> "dir", writable |-> TRUE]]_vars

C7_Witness ==
  /\ pc = "probe"
  /\ path = <<"n">>
  /\ main_download_path = <<"/", "m", "/", "n">>
  /\ HasKind(out, "created")

PathDiagnostics ==
  {"invalid_path", "create_error", "not_a_directory", "no_write_permission"}

\* C8 as stated: every iteration of path acquisition that ends at the path
\* prompt again has printed one of the diagnostics.
C8_EveryFailureDiagnosed ==
  [][(pc \in {"path_prompt", "create_prompt"} /\ pc' = "path_prompt")
       => \E i \in DOMAIN out' : out'[i].kind \in PathDiagnostics]_vars

\* C8 amended: an empty path, a path that is not a directory, a path that is
\* not writable and a failed directory creation each print their own
\* diagnostic before the path prompt is shown again; a declined creation
\* shows the path prompt again and prints nothing; no failure ends path
\* acquisition.
C8_FailuresDiagnosedExceptDecline ==
  [][/\ (pc = "path_prompt" /\ pc' = "path_prompt")
          => Kinds(out') =
               (IF OnlyWhitespace(line') THEN <<"invalid_path">>
                ELSE IF Entry(fs, Resolve(path')).kind # "dir" THEN <<"not_a_directory">>
                ELSE <<"no_write_permission">>)
     /\ (pc = "create_prompt" /\ pc' = "path_prompt")
          => Kinds(out') =
               (IF Lower(Strip(line')) \notin {<<"y">>, <<"y", "e", "s">>} THEN <<>>
                ELSE IF Entry(fs', download_path).kind = "absent" THEN <<"create_error">>
                ELSE <<"created", "no_write_permission">>)
     /\ pc \in {"path_prompt", "create_prompt"}
          => pc' \in {"path_prompt", "create_prompt", "probe"}]_vars

C8_Witness ==
  /\ pc = "path_prompt"
  /\ Kinds(out) = <<"created", "no_write_permission">>
  /\ Entry(fs, download_path) = [kind |-> "dir", writable |-> FALSE]

\* C9 as stated: at the creation prompt, an answer other than 'y' or 'yes'
\* shows the path prompt again and leaves the filesystem as it was; after a
\* confirmation, a return of get_download_path returns a writable directory.
C9_DeclineAsStated ==
  [][pc = "create_prompt"
       => IF line' \in {<<"y">>, <<"y", "e", "s">>}
          THEN pc' = "probe"
                 => Entry(fs', download_path) = [kind |-> "dir", writable |-> TRUE]
          ELSE pc' = "path_prompt" /\ fs' = fs]_vars

\* C9 amended: at the creation prompt, an answer that, with surrounding
\* whitespace removed and lower-cased, is other than 'y' or 'yes' shows the
\* path prompt again and leaves the filesystem as it was; after a
\* confirmation get_download_path returns in that iteration only if the path
\* has been created and is a writable directory, which is then what it
\* returns.
C9_ConfirmCreatesDeclineKeeps ==
  [][pc = "create_prompt"
       => IF Lower(Strip(line')) \in {<<"y">>, <<"y", "e", "s">>}
          THEN pc' = "probe"
                 => /\ Entry(fs, download_path).kind = "absent"
                    /\ Entry(fs', download_path) = [kind |-> "dir", writable |-> TRUE]
                    /\ main_download_path' = PathStr(download_path)
                    /\ HasKind(out', "created")
          ELSE pc' = "path_prompt" /\ fs' = fs /\ path_returns' = path_returns]_vars

C9_Witness ==
  /\ pc = "probe"
  /\ line = <<" ", "Y", "E", "S", " ">>
  /\ HasKind(out, "created")
  /\ Entry(fs, download_path) = [kind |-> "dir", writable |-> TRUE]

\* C10: a line at the path prompt that is empty or consists of whitespace
\* shows the path prompt again, after the diagnostic, changes nothing in the
\* filesystem and does not lead to the creation prompt.
C10_EmptyPathReprompts ==
  [][(pc = "path_prompt" /\ OnlyWhitespace(line'))
       => /\ pc' = "path_prompt"
          /\ fs' = fs
          /\ path_returns' = path_returns
          /\ Kinds(out') = <<"invalid_path">>]_vars

C10_Witness ==
  /\ pc = "path_prompt"
  /\ line = <<"\t", " ">>
  /\ Kinds(out) = <<"invalid_path">>

\* C11: whatever the outcome of the ffmpeg probe, the session reaches the
\* first URL prompt and keeps running, and when the probe did not succeed
\* the warning has been printed.
C11_ProbeFailureNeverFatal ==
  [][pc = "probe"
       => /\ pc' = "AwaitingURL"
          /\ exit_status' = "running"
          /\ (last_probe' # "ok" => HasKind(out', "ffmpeg_warning"))]_vars

\* C12: when yt_dlp cannot be imported, the program prints the two
\* remediation lines and exits with status 1; no line is ever read, no path
\* prompt, creation prompt, probe or URL prompt is reached and download_audio
\* is never called.
C12_MissingLibraryExitsAtOnce ==
  ~yt_dlp_installed
    => /\ pc \in {"import", "exited"}
       /\ path_prompts = 0 /\ path_returns = 0
       /\ last_probe = "none"
       /\ dispatches = 0
       /\ pc = "exited"
            => /\ exit_status = "1"
               /\ Kinds(out) = <<"not_installed", "install_hint">>

C12_Witness ==
  /\ ~yt_dlp_installed
  /\ pc = "exited"
  /\ exit_status = "1"
  /\ HasKind(out, "install_hint")

\* C13: when the line answered to the first path prompt names a path that
\* exists, is a directory and is writable, get_download_path returns that
\* path in the same iteration: one path prompt, no creation prompt, no mkdir
\* and an unchanged filesystem.
C13_ValidFirstPathReturnsAtOnce ==
  [][(/\ pc = "path_prompt" /\ path_prompts = 0
      /\ ~OnlyWhitespace(line')
      /\ Entry(fs, Resolve(Strip(line'))) = [kind |-> "dir", writable |-> TRUE])
       => /\ pc' = "probe"
          /\ path_prompts' = 1
          /\ path_returns' = 1
          /\ last_mkdir' = "none"
          /\ fs' = fs
          /\ main_download_path' = PathStr(Resolve(Strip(line')))
          /\ Kinds(out') = <<"path_set">>]_vars

C13_Witness ==
  /\ pc = "probe"
  /\ path_prompts = 1
  /\ path_returns = 1
  /\ line = <<" ", "/", "m", " ">>
  /\ main_download_path = <<"/", "m">>
  /\ last_mkdir = "none"

\* C14: within one download_audio call the download call is made only from
\* the position after an extract_info call for the same URL that returned an
\* info whose title and duration were printed without error; it is never
\* made first and never after a failed retrieval.
C14_MetadataBeforeDownload ==
  /\ [](item_downloads <= item_extracts)
  /\ [][/\ (pc' = "download" /\ pc # "download")
             => /\ pc = "extract_info"
                /\ last_fetch'.call = "extract_info" /\ last_fetch'.type = "info"
                /\ HasKind(out', "title")
                /\ ~HasKind(out', "error")
        /\ item_downloads' > item_downloads
             => /\ item_extracts = 1 /\ item_downloads = 0
                /\ last_fetch.call = "extract_info" /\ last_fetch.type = "info"
                /\ HasKind(out, "title")
                /\ ~HasKind(out, "error")
                /\ url' = url]_vars

C14_Witness ==
  /\ pc = "AwaitingURL"
  /\ item_extracts = 1 /\ item_downloads = 1
  /\ last_fetch.call = "download"
  /\ HasKind(out, "title") /\ HasKind(out, "duration")

\* C15: for one accepted URL there is at most one extract_info call and at
\* most one download call; a failure prints exactly one error line, and the
\* step that prints it takes the session back to the URL prompt.
C15_NoRetry ==
  /\ [](item_extracts <= 1 /\ item_downloads <= 1)
  /\ [](CountKind(out, "error") <= 1)
  /\ [][(Processing /\ (last_fetch'.type \in {"raise", "none"} \/ HasKind(out', "error")))
          => /\ CountKind(out', "error") = 1
             /\ pc' = "AwaitingURL"
             /\ dispatch_returns' = dispatch_returns + 1]_vars

C15_Witness ==
  /\ pc = "AwaitingURL"
  /\ item_extracts = 1 /\ item_downloads = 1
  /\ last_fetch.type = "raise"
  /\ CountKind(out, "error") = 1
  /\ dispatch_returns = 2

\* C16: a non-empty line at the URL prompt whose lower-cased text contains
\* one of the two domains takes the session to Processing with exactly one
\* download_audio call, whose arguments are the URL of that line (the line
\* without surrounding whitespace) and the directory get_download_path
\* returned; during Processing no further call is made, and Processing is
\* left only towards the URL prompt.
C16_AcceptedUrlDispatchedOnce ==
  [][/\ (pc = "AwaitingURL" /\ line' # <<>> /\ ~LacksDomains(line'))
          => /\ pc' = "extract_info"
             /\ dispatches' = dispatches + 1
             /\ url' = Strip(line')
             /\ arg_download_path' = main_download_path
             /\ Entry(fs, Resolve(arg_download_path')) = [kind |-> "dir", writable |-> TRUE]
             /\ Kinds(out') = <<"processing">>
     /\ Processing
          => /\ dispatches' = dispatches
             /\ url' = url
             /\ arg_download_path' = arg_download_path
             /\ pc' \in {"extract_info", "download", "AwaitingURL"}
             /\ exit_status' = "running"]_vars

C16_Witness ==
  /\ pc = "AwaitingURL"
  /\ line = <<"Y", "O", "U", "T", "U", "B", "E", ".", "C", "O", "M", "/", "w">>
  /\ url = line
  /\ dispatches = 1 /\ dispatch_returns = 1

\* C17: when the user confirms creation and mkdir raises, the iteration
\* prints the creation error with the exception's text, shows the path
\* prompt again and does not return: main's download path stays unset.
C17_CreationErrorReprompts ==
  [][(pc = "create_prompt" /\ last_mkdir' # "none")
       => /\ pc' = "path_prompt"
          /\ Kinds(out') = <<"create_error">>
          /\ out'[1].text = last_mkdir'
          /\ path_returns' = path_returns
          /\ main_download_path' = main_download_path]_vars

C17_Witness ==
  /\ pc = "path_prompt"
  /\ last_mkdir = "PermissionError"
  /\ Kinds(out) = <<"create_error">>
  /\ path_returns = 0

\* C18: a download_audio call that has returned has printed exactly one of
\* the success line and the error line; the success line is printed only
\* when extract_info returned an info and download returned without error;
\* while the call is running neither has been printed.
C18_SuccessXorError ==
  /\ [](Processing => ~HasKind(out, "success") /\ ~HasKind(out, "error"))
  /\ [][(Processing /\ pc' = "AwaitingURL")
          => /\ CountKind(out', "success") + CountKind(out', "error") = 1
             /\ HasKind(out', "success")
                  => /\ pc = "download"
                     /\ last_fetch.call = "extract_info" /\ last_fetch.type = "info"
                     /\ last_fetch'.call = "download" /\ last_fetch'.type = "ok"]_vars

C18_Witness ==
  /\ pc = "AwaitingURL"
  /\ dispatch_returns = 1
  /\ HasKind(out, "success") /\ ~HasKind(out, "error")
  /\ last_fetch.type = "ok"

\* C19: downloaded_count is 0 at the start and equals the number of returns
\* of download_audio in every state; it never decreases and it changes only
\* in the step from Processing back to the URL prompt.
C19_CountEqualsReturns ==
  /\ [](downloaded_count = dispatch_returns)
  /\ [](pc \in {"import", "path_prompt", "create_prompt", "probe"} => downloaded_count = 0)
  /\ [][/\ downloaded_count' >= downloaded_count
        /\ downloaded_count' # downloaded_count
             => Processing /\ pc' = "AwaitingURL"]_vars

C19_Witness ==
  /\ pc = "download"
  /\ dispatches = 2
  /\ dispatch_returns = 1 /\ downloaded_count = 1

\* C20: the step in which download_audio returns prints exactly one
\* separator, 50 dashes long, as the last line of the item and right after
\* its success or error line; no other step prints a separator: not a
\* rejected line, not the terminating empty line, not the acceptance of a
\* URL and not the step between the two yt_dlp calls.
C20_OneSeparatorPerItem ==
  [][/\ (Processing /\ pc' = "AwaitingURL")
          => /\ CountKind(out', "separator") = 1
             /\ Len(out') >= 2
             /\ out'[Len(out')].kind = "separator"
             /\ Len(out'[Len(out')].text) = 50
             /\ \A i \in 1..50 : out'[Len(out')].text[i] = "-"
             /\ out'[Len(out') - 1].kind \in {"success", "error"}
     /\ ~(Processing /\ pc' = "AwaitingURL") => ~HasKind(out', "separator")]_vars

C20_Witness ==
  /\ pc = "AwaitingURL"
  /\ Len(out) >= 2
  /\ out[Len(out)].kind = "separator"
  /\ Len(out[Len(out)].text) = 50
  /\ out[Len(out) - 1].kind = "error"
  /\ last_fetch.call = "extract_info"

====
